---- MODULE Spec2Model ----
(***************************************************************************)
(* School Co-Pilot backend: the per-class vector index, the class          *)
(* isolation service, the RAG query service and the query endpoint.        *)
(*                                                                         *)
(* A chunk is identified by its id (a uuid in the code, a number here) and *)
(* every chunk has its own text, so the embedding of chunk n is the vector *)
(* [emb |-> n].  A FAISS IndexFlatIP is the sequence of the vectors added  *)
(* to it; the chunk mapping is the parallel sequence of chunk ids.         *)
(* Similarities are in tenths (7 is 0.7).                                  *)
(***************************************************************************)
EXTENDS Integers, Sequences, FiniteSets, TLC

VARIABLES
    docStatus,     \* documents table: status per document id ("absent" = no row)
    chunks,        \* document_chunks table: set of [id, document_id]
    nextChunk,     \* next unused chunk id
    assigned,      \* class_documents table: set of <<document id, class id>>
    classEnabled,  \* classes table: enabled flag per class
    access,        \* student_access table: set of [student_id, class_id, enabled]
    disk,          \* data/vector_db: [index, mapping], one file of each per class
    vdb,           \* one VectorDatabase object (SpecVdb)
    last,          \* outcome of the last operation
    resp,          \* outcome of the last query request
    writer,        \* SpecConc: per assigning process, its position and own index
    reader,        \* SpecConc: the loading process, its position and what it read
    ver,           \* SpecConc: which process wrote the index file and the mapping file
    clock,         \* the server's clock: [now, utc_offset]
    usage,         \* student_access table: daily_question_count, last_question_date
    handed         \* per student and class: queries handed to retrieval on the current day

vars == <<docStatus, chunks, nextChunk, assigned, classEnabled, access, disk, vdb,
          last, resp, writer, reader, ver, clock, usage, handed>>

----------------------------------------------------------------------------
\* Bounds of the model

MaxChunkId == 2
MaxChunksPerDoc == 1
MaxIndexLen == 3

ClassIds == {"c1", "c2"}
DocIds == {"d1", "d2"}
StudentIds == {"s1"}
UnknownClass == "c0"
UnknownDoc == "d0"
UnknownStudent == "s0"
ChunkIds == 1..MaxChunkId

NoIndex == "no index for this class"
NoFile == "no file for this class"

Min(a, b) == IF a < b THEN a ELSE b

\* A set of numbers as the ascending sequence (rows come back in rowid order).
RECURSIVE SortedSeq(_)
SortedSeq(S) ==
    IF S = {} THEN <<>>
    ELSE LET m == CHOOSE x \in S : \A y \in S : x <= y
         IN  <<m>> \o SortedSeq(S \ {m})

SeqToSet(s) == {s[i] : i \in DOMAIN s}

----------------------------------------------------------------------------
\* EmbeddingService

Embed(text) == [emb |-> text]

\* Inner product of two unit vectors, in tenths.
Similarity(qv, v) ==
    IF qv.emb = v.emb THEN 9
    ELSE IF qv.emb - v.emb \in {1, -1} THEN 7
    ELSE 5

generate_embeddings(texts) == [i \in DOMAIN texts |-> Embed(texts[i])]

----------------------------------------------------------------------------
\* VectorDatabase

EmptyVdb ==
    [indexes |-> [c \in ClassIds |-> NoIndex],
     chunk_mappings |-> [c \in ClassIds |-> NoIndex]]

EmptyDisk ==
    [index |-> [c \in ClassIds |-> NoFile],
     mapping |-> [c \in ClassIds |-> NoFile]]

create_class_index(v, c) ==
    [indexes |-> [v.indexes EXCEPT ![c] = <<>>],
     chunk_mappings |-> [v.chunk_mappings EXCEPT ![c] = <<>>]]

\* With no embeddings the norm over axis 1 raises after the index was created
\* lazily; the exception is swallowed and nothing is appended.
add_embeddings(v, c, embeddings, chunk_ids) ==
    LET w == IF v.indexes[c] = NoIndex THEN create_class_index(v, c) ELSE v
    IN  IF embeddings = <<>> THEN w
        ELSE [indexes |-> [w.indexes EXCEPT ![c] = @ \o embeddings],
              chunk_mappings |-> [w.chunk_mappings EXCEPT ![c] = @ \o chunk_ids]]

\* Positions of the k best vectors, best first (equal scores: lower position first).
RECURSIVE TopK(_, _, _, _)
TopK(index, qv, k, taken) ==
    IF k = 0 \/ DOMAIN index \subseteq taken THEN <<>>
    ELSE LET rest == DOMAIN index \ taken
             best == CHOOSE i \in rest : \A j \in rest :
                         \/ Similarity(qv, index[i]) > Similarity(qv, index[j])
                         \/ /\ Similarity(qv, index[i]) = Similarity(qv, index[j])
                            /\ i <= j
         IN  <<best>> \o TopK(index, qv, k - 1, taken \cup {best})

RECURSIVE SearchResults(_, _, _, _)
SearchResults(pos, index, mapping, qv) ==
    IF pos = <<>> THEN <<>>
    ELSE LET p == Head(pos)
             rest == SearchResults(Tail(pos), index, mapping, qv)
         IN  IF p <= Len(mapping)
             THEN <<[chunk_id |-> mapping[p], score |-> Similarity(qv, index[p])]>> \o rest
             ELSE rest

\* Faulty variant of search: every vector of the index is asked for, whatever
\* k is.
SearchIgnoresK(v, c, qv, k) ==
    IF v.indexes[c] = NoIndex THEN <<>>
    ELSE IF Len(v.indexes[c]) = 0 THEN <<>>
    ELSE SearchResults(TopK(v.indexes[c], qv, Len(v.indexes[c]), {}),
                       v.indexes[c], v.chunk_mappings[c], qv)

search(v, c, qv, k) ==
    IF v.indexes[c] = NoIndex THEN <<>>
    ELSE IF Len(v.indexes[c]) = 0 THEN <<>>
    ELSE SearchResults(TopK(v.indexes[c], qv, Min(k, Len(v.indexes[c])), {}),
                       v.indexes[c], v.chunk_mappings[c], qv)

\* Only the mapping loses the document's entries; the FAISS index keeps its vectors.
remove_document_embeddings(v, c, document_id, chunk_ids) ==
    IF v.indexes[c] = NoIndex THEN v
    ELSE [v EXCEPT !.chunk_mappings[c] =
              SelectSeq(v.chunk_mappings[c], LAMBDA id : id \notin chunk_ids)]

\* Faulty variant of save_index: the mapping file is written, the index file
\* is written without its last vector.
SaveIndexDropsLastVector(v, c, dsk) ==
    IF v.indexes[c] = NoIndex THEN dsk
    ELSE [index |-> [dsk.index EXCEPT ![c] =
                        SubSeq(v.indexes[c], 1, Len(v.indexes[c]) - 1)],
          mapping |-> [dsk.mapping EXCEPT ![c] = v.chunk_mappings[c]]]

save_index(v, c, dsk) ==
    IF v.indexes[c] = NoIndex THEN dsk
    ELSE [index |-> [dsk.index EXCEPT ![c] = v.indexes[c]],
          mapping |-> [dsk.mapping EXCEPT ![c] = v.chunk_mappings[c]]]

load_index(v, c, dsk) ==
    IF dsk.index[c] = NoFile \/ dsk.mapping[c] = NoFile THEN v
    ELSE [indexes |-> [v.indexes EXCEPT ![c] = dsk.index[c]],
          chunk_mappings |-> [v.chunk_mappings EXCEPT ![c] = dsk.mapping[c]]]

get_index_stats(v, c) ==
    IF v.indexes[c] = NoIndex THEN [exists |-> FALSE, total_vectors |-> 0, chunk_count |-> 0]
    ELSE [exists |-> TRUE,
          total_vectors |-> Len(v.indexes[c]),
          chunk_count |-> Len(v.chunk_mappings[c])]

----------------------------------------------------------------------------
\* Relational store helpers

documents == {d \in DocIds : docStatus[d] # "absent"}

\* db.query(DocumentChunk).filter(document_id == d).all(): the ids, in row order
ChunkIdsOf(chs, d) == SortedSeq({ch.id : ch \in {x \in chs : x.document_id = d}})

ChunkDocument(chs, id) ==
    IF \E ch \in chs : ch.id = id
    THEN (CHOOSE ch \in chs : ch.id = id).document_id
    ELSE UnknownDoc

\* Chunk n holds text n.
ChunkTexts(ids) == [i \in DOMAIN ids |-> ids[i]]

ClassDocuments(asg, c) == {d \in DocIds : <<d, c>> \in asg}

NoOp == [op |-> "none"]
NoResp == [kind |-> "none"]

\* The processes of SpecConc before they start.
Writers == {"w1", "w2"}
IdleWriters == [w \in Writers |-> [pc |-> "idle"]]
IdleReader == [pc |-> "idle"]
NoVer == [index |-> "none", mapping |-> "none"]

\* The clock counts ticks, DayLength of them to a calendar day; a date is the
\* number of its day.  utc_offset is how far the server's local time is ahead
\* of UTC.
DayLength == 2
MaxTime == 3
UtcOffsets == {0, 1}
NoDate == -1

\* classes.daily_question_limit, the same for every class
daily_question_limit == 1
MaxHanded == daily_question_limit + 2

\* datetime.utcnow(), and .date() of such a value
utcnow(clk) == clk.now
UtcDate(t) == t \div DayLength
\* date.today(): the date of the server's local time
today(clk) == (clk.now + clk.utc_offset) \div DayLength

NoUsage ==
    [k \in StudentIds \X ClassIds |->
        [daily_question_count |-> 0, last_question_date |-> NoDate]]
NoneHanded ==
    [k \in StudentIds \X ClassIds |->
        [utc_date |-> NoDate, utc_n |-> 0, local_date |-> NoDate, local_n |-> 0]]

----------------------------------------------------------------------------
\* SpecVdb: one VectorDatabase object driven call by call, over a fixed chunk
\* table (odd chunk ids belong to d1, even ones to d2).

FixtureChunks == {[id |-> n, document_id |-> IF n % 2 = 1 THEN "d1" ELSE "d2"] : n \in ChunkIds}

InitVdb ==
    /\ docStatus = [d \in DocIds |-> "ready"]
    /\ chunks = FixtureChunks
    /\ nextChunk = MaxChunkId + 1
    /\ assigned = {}
    /\ classEnabled = [c \in ClassIds |-> TRUE]
    /\ access = {}
    /\ disk = EmptyDisk
    /\ vdb = EmptyVdb
    /\ last = NoOp
    /\ resp = NoResp
    /\ writer = IdleWriters
    /\ reader = IdleReader
    /\ ver = NoVer
    /\ clock = [now |-> 0, utc_offset |-> 0]
    /\ usage = NoUsage
    /\ handed = NoneHanded

dbUnchanged ==
    UNCHANGED <<docStatus, chunks, nextChunk, assigned, classEnabled, access,
                writer, reader, ver, clock, usage, handed>>

VdbNew ==
    /\ vdb' = EmptyVdb
    /\ last' = [op |-> "new"]
    /\ UNCHANGED <<disk, resp>>
    /\ dbUnchanged

VdbCreateClassIndex(c) ==
    /\ vdb' = create_class_index(vdb, c)
    /\ last' = [op |-> "create", class_id |-> c]
    /\ UNCHANGED <<disk, resp>>
    /\ dbUnchanged

VdbAddEmbeddings(c, d) ==
    LET ids == ChunkIdsOf(chunks, d)
        have == IF vdb.indexes[c] = NoIndex THEN 0 ELSE Len(vdb.indexes[c])
    IN  /\ have + Len(ids) <= MaxIndexLen
        /\ vdb' = add_embeddings(vdb, c, generate_embeddings(ChunkTexts(ids)), ids)
        /\ last' = [op |-> "add", class_id |-> c]
        /\ UNCHANGED <<disk, resp>>
        /\ dbUnchanged

VdbRemoveDocumentEmbeddings(c, d) ==
    /\ vdb' = remove_document_embeddings(vdb, c, d, SeqToSet(ChunkIdsOf(chunks, d)))
    /\ last' = [op |-> "remove", class_id |-> c]
    /\ UNCHANGED <<disk, resp>>
    /\ dbUnchanged

VdbSaveIndex(c) ==
    /\ disk' = save_index(vdb, c, disk)
    /\ last' = [op |-> "save", class_id |-> c, ok |-> vdb.indexes[c] # NoIndex]
    /\ UNCHANGED <<vdb, resp>>
    /\ dbUnchanged

VdbLoadIndex(c) ==
    /\ vdb' = load_index(vdb, c, disk)
    /\ last' = [op |-> "load", class_id |-> c,
                ok |-> disk.index[c] # NoFile /\ disk.mapping[c] # NoFile]
    /\ UNCHANGED <<disk, resp>>
    /\ dbUnchanged

VdbSearch(c, q, k) ==
    /\ last' = [op |-> "search", class_id |-> c, query |-> q, k |-> k,
                results |-> search(vdb, c, Embed(q), k)]
    /\ UNCHANGED <<vdb, disk, resp>>
    /\ dbUnchanged

\* The classes of a VectorDatabase are independent dictionary entries: SpecVdb
\* drives one of them.
VdbClass == "c1"

NextVdb ==
    \/ VdbNew
    \/ VdbCreateClassIndex(VdbClass)
    \/ \E d \in DocIds : VdbAddEmbeddings(VdbClass, d)
    \/ \E d \in DocIds : VdbRemoveDocumentEmbeddings(VdbClass, d)
    \/ VdbSaveIndex(VdbClass)
    \/ VdbLoadIndex(VdbClass)
    \/ \E q \in ChunkIds, k \in 1..MaxIndexLen : VdbSearch(VdbClass, q, k)

SpecVdb == InitVdb /\ [][NextVdb]_vars

----------------------------------------------------------------------------
\* ClassIsolationService, as operators on the world a call reads and writes:
\* w = [assigned, vdb, disk, ok], vdb being the service object's own
\* VectorDatabase (empty when the service is constructed).

World(asg, v, dsk) == [assigned |-> asg, vdb |-> v, disk |-> dsk, ok |-> TRUE]

\* embedFails: EmbeddingService() or generate_embeddings raises in this call.
\* Faulty variant of assign_document_to_class: an assignment that exists
\* already is not noticed.
AssignDocumentAlwaysEmbeds(w, d, c, embedFails) ==
    IF d \notin documents \/ c \notin ClassIds THEN [w EXCEPT !.ok = FALSE]
    ELSE LET committed == [w EXCEPT !.assigned = @ \cup {<<d, c>>}]
             ids == ChunkIdsOf(chunks, d)
         IN  IF ids = <<>> THEN [committed EXCEPT !.ok = TRUE]
             ELSE IF embedFails THEN [committed EXCEPT !.ok = FALSE]
             ELSE LET v == add_embeddings(committed.vdb, c,
                                          generate_embeddings(ChunkTexts(ids)), ids)
                  IN  [committed EXCEPT !.vdb = v,
                                        !.disk = save_index(v, c, committed.disk),
                                        !.ok = TRUE]

\* Faulty variant of assign_document_to_class: only the class is looked up.
AssignDocumentNoDocumentCheck(w, d, c, embedFails) ==
    IF c \notin ClassIds THEN [w EXCEPT !.ok = FALSE]
    ELSE IF <<d, c>> \in w.assigned THEN [w EXCEPT !.ok = TRUE]
    ELSE LET committed == [w EXCEPT !.assigned = @ \cup {<<d, c>>}]
             ids == ChunkIdsOf(chunks, d)
         IN  IF ids = <<>> THEN [committed EXCEPT !.ok = TRUE]
             ELSE IF embedFails THEN [committed EXCEPT !.ok = FALSE]
             ELSE LET v == add_embeddings(committed.vdb, c,
                                          generate_embeddings(ChunkTexts(ids)), ids)
                  IN  [committed EXCEPT !.vdb = v,
                                        !.disk = save_index(v, c, committed.disk),
                                        !.ok = TRUE]

assign_document_to_class(w, d, c, embedFails) ==
    IF d \notin documents \/ c \notin ClassIds THEN [w EXCEPT !.ok = FALSE]
    ELSE IF <<d, c>> \in w.assigned THEN [w EXCEPT !.ok = TRUE]
    ELSE LET committed == [w EXCEPT !.assigned = @ \cup {<<d, c>>}]
             ids == ChunkIdsOf(chunks, d)
         IN  IF ids = <<>> THEN [committed EXCEPT !.ok = TRUE]
             ELSE IF embedFails THEN [committed EXCEPT !.ok = FALSE]
             ELSE LET v == add_embeddings(committed.vdb, c,
                                          generate_embeddings(ChunkTexts(ids)), ids)
                  IN  [committed EXCEPT !.vdb = v,
                                        !.disk = save_index(v, c, committed.disk),
                                        !.ok = TRUE]

remove_document_from_class(w, d, c) ==
    IF d \notin documents \/ c \notin ClassIds THEN [w EXCEPT !.ok = FALSE]
    ELSE LET v == remove_document_embeddings(w.vdb, c, d, SeqToSet(ChunkIdsOf(chunks, d)))
         IN  [assigned |-> w.assigned \ {<<d, c>>},
              vdb |-> v,
              disk |-> save_index(v, c, w.disk),
              ok |-> TRUE]

create_class_collection(w, c) ==
    IF c \notin ClassIds THEN [w EXCEPT !.ok = FALSE]
    ELSE [w EXCEPT !.vdb = create_class_index(w.vdb, c), !.ok = TRUE]

get_class_documents(asg, c) == IF c \notin ClassIds THEN {} ELSE ClassDocuments(asg, c)

\* The loop of migrate_class_documents over the documents of the source class.
\* r = [w, migrated, failed, to_failed]; failTo and failBack say for which
\* documents the embedding fails in the assignment to the destination and in
\* the compensating assignment to the source.
RECURSIVE MigrateLoopNoCompensation(_, _, _, _, _, _)
MigrateLoopNoCompensation(r, docs, from, to, failTo, failBack) ==
    IF docs = <<>> THEN r
    ELSE LET d == Head(docs)
             removed == remove_document_from_class(r.w, d, from)
             moved == assign_document_to_class(removed, d, to, d \in failTo)
             step ==
                 IF ~removed.ok
                 THEN [r EXCEPT !.w = removed, !.failed = @ \cup {d}]
                 ELSE IF moved.ok
                 THEN [r EXCEPT !.w = moved, !.migrated = @ \cup {d}]
                 ELSE [r EXCEPT !.w = moved, !.failed = @ \cup {d},
                                !.to_failed = @ \cup {d}]
         IN  MigrateLoopNoCompensation(step, Tail(docs), from, to, failTo, failBack)

RECURSIVE MigrateLoop(_, _, _, _, _, _)
MigrateLoop(r, docs, from, to, failTo, failBack) ==
    IF docs = <<>> THEN r
    ELSE LET d == Head(docs)
             removed == remove_document_from_class(r.w, d, from)
             moved == assign_document_to_class(removed, d, to, d \in failTo)
             back == assign_document_to_class(moved, d, from, d \in failBack)
             step ==
                 IF ~removed.ok
                 THEN [r EXCEPT !.w = removed, !.failed = @ \cup {d}]
                 ELSE IF moved.ok
                 THEN [r EXCEPT !.w = moved, !.migrated = @ \cup {d}]
                 ELSE [r EXCEPT !.w = back, !.failed = @ \cup {d},
                                !.to_failed = @ \cup {d}]
         IN  MigrateLoop(step, Tail(docs), from, to, failTo, failBack)

DocSeq(S) ==
    LET RECURSIVE Build(_)
        Build(T) == IF T = {} THEN <<>>
                    ELSE LET m == CHOOSE x \in T : \A y \in T : x = y \/ x = "d1"
                         IN  <<m>> \o Build(T \ {m})
    IN  Build(S)

migrate_class_documents(w, from, to, failTo, failBack) ==
    MigrateLoop([w |-> w, migrated |-> {}, failed |-> {}, to_failed |-> {}],
                DocSeq(ClassDocuments(w.assigned, from)), from, to, failTo, failBack)

----------------------------------------------------------------------------
\* RAGService

similarity_threshold == 7
max_chunks == 5

\* RAGService.__init__: a VectorDatabase holding every class's saved index.
load_existing_indexes(dsk) ==
    [indexes |-> [c \in ClassIds |-> load_index(EmptyVdb, c, dsk).indexes[c]],
     chunk_mappings |-> [c \in ClassIds |-> load_index(EmptyVdb, c, dsk).chunk_mappings[c]]]

\* The loop of index_document over the document's classes: add, then save.
RECURSIVE IndexIntoClasses(_, _, _, _)
IndexIntoClasses(st, cs, embeddings, ids) ==
    IF cs = {} THEN st
    ELSE LET c == CHOOSE x \in cs : TRUE
             v == add_embeddings(st.vdb, c, embeddings, ids)
         IN  IndexIntoClasses([vdb |-> v, disk |-> save_index(v, c, st.disk)],
                              cs \ {c}, embeddings, ids)

\* index_document(d) on a service whose VectorDatabase is v.  extractOk: the
\* file yields text; n: the chunks the chunker makes of it; embedFails: the
\* model raises.  Gives the new [chunks, nextChunk, disk, status, ok].
index_document(v, chs, asg, dsk, status, d, extractOk, n, embedFails) ==
    LET ids == [i \in 1..n |-> nextChunk + i - 1]
        stored == chs \cup {[id |-> ids[i], document_id |-> d] : i \in 1..n}
        done == IndexIntoClasses([vdb |-> v, disk |-> dsk],
                                 {c \in ClassIds : <<d, c>> \in asg},
                                 generate_embeddings(ChunkTexts(ids)), ids)
    IN  IF ~extractOk
        THEN [chunks |-> chs, nextChunk |-> nextChunk, disk |-> dsk,
              status |-> status, ok |-> FALSE]
        ELSE IF embedFails /\ n > 0
        THEN [chunks |-> stored, nextChunk |-> nextChunk + n, disk |-> dsk,
              status |-> "error", ok |-> FALSE]
        ELSE [chunks |-> stored, nextChunk |-> nextChunk + n, disk |-> done.disk,
              status |-> "ready", ok |-> TRUE]

\* reindex_document(d): drop the old chunks' mapping entries in memory, delete
\* the old chunk rows, index again.
RECURSIVE RemoveFromClasses(_, _, _, _)
RemoveFromClasses(v, cs, d, ids) ==
    IF cs = {} THEN v
    ELSE LET c == CHOOSE x \in cs : TRUE
         IN  RemoveFromClasses(remove_document_embeddings(v, c, d, ids), cs \ {c}, d, ids)

reindex_document(v, chs, asg, dsk, status, d, extractOk, n, embedFails) ==
    LET old == SeqToSet(ChunkIdsOf(chs, d))
        v1 == RemoveFromClasses(v, {c \in ClassIds : <<d, c>> \in asg}, d, old)
        kept == {ch \in chs : ch.document_id # d}
    IN  index_document(v1, kept, asg, dsk, status, d, extractOk, n, embedFails)

----------------------------------------------------------------------------
\* Spec: the requests of the API, each served by service objects of its own.

Init ==
    /\ docStatus = [d \in DocIds |-> "absent"]
    /\ chunks = {}
    /\ nextChunk = 1
    /\ assigned = {}
    /\ classEnabled = [c \in ClassIds |-> TRUE]
    /\ access = {}
    /\ disk = EmptyDisk
    /\ vdb = EmptyVdb
    /\ last = NoOp
    /\ resp = NoResp
    /\ writer = IdleWriters
    /\ reader = IdleReader
    /\ ver = NoVer
    /\ clock = [now |-> 0, utc_offset |-> 0]
    /\ usage = NoUsage
    /\ handed = NoneHanded

quotaUnchanged == UNCHANGED <<clock, usage, handed>>

concUnchanged == UNCHANGED <<writer, reader, ver>> /\ quotaUnchanged

restUnchanged ==
    UNCHANGED <<classEnabled, access, vdb, resp, writer, reader, ver>> /\ quotaUnchanged

\* The environment's choices are named only where the call reads them: no
\* chunks without text, no embedding call without chunks.
OracleUsed(extractOk, n, embedFails) ==
    /\ ~extractOk => n = 0
    /\ n = 0 => ~embedFails

\* assign_document_to_class reaches the embedding model only for an existing,
\* not yet assigned document with chunks.
EmbedsOnAssign(asg, d, c) ==
    /\ d \in documents
    /\ c \in ClassIds
    /\ <<d, c>> \notin asg
    /\ ChunkIdsOf(chunks, d) # <<>>

\* POST /api/docs/upload, cls being the class given with the upload or "none"
UploadDocument(d, cls, extractOk, n, embedFails) ==
    /\ docStatus[d] = "absent"
    /\ nextChunk + n - 1 <= MaxChunkId
    /\ OracleUsed(extractOk, n, embedFails)
    /\ LET asg == IF cls \in ClassIds THEN assigned \cup {<<d, cls>>} ELSE assigned
           r == index_document(load_existing_indexes(disk), chunks, asg, disk,
                               "processing", d, extractOk, n, embedFails)
       IN  /\ assigned' = asg
           /\ chunks' = r.chunks
           /\ nextChunk' = r.nextChunk
           /\ disk' = r.disk
           /\ docStatus' = [docStatus EXCEPT ![d] = IF r.ok THEN r.status ELSE "error"]
           /\ last' = [op |-> "upload", ok |-> r.ok]
    /\ restUnchanged

\* POST /api/docs/reindex for one document
ReindexDocument(d, extractOk, n, embedFails) ==
    /\ d \in documents
    /\ nextChunk + n - 1 <= MaxChunkId
    /\ OracleUsed(extractOk, n, embedFails)
    /\ LET r == reindex_document(load_existing_indexes(disk), chunks, assigned, disk,
                                 docStatus[d], d, extractOk, n, embedFails)
       IN  /\ chunks' = r.chunks
           /\ nextChunk' = r.nextChunk
           /\ disk' = r.disk
           /\ docStatus' = [docStatus EXCEPT ![d] = r.status]
           /\ last' = [op |-> "reindex", document_id |-> d, ok |-> r.ok]
    /\ UNCHANGED assigned
    /\ restUnchanged

\* POST /api/docs/assign: the relation alone changes
AssignDocumentToClasses(d, cs, action) ==
    /\ d \in documents
    /\ assigned' = IF action = "assign"
                   THEN assigned \cup {<<d, c>> : c \in cs}
                   ELSE assigned \ {<<d, c>> : c \in cs}
    /\ last' = [op |-> "docs_assign", ok |-> TRUE]
    /\ UNCHANGED <<docStatus, chunks, nextChunk, disk>>
    /\ restUnchanged

\* POST /api/isolation/documents/{d}/assign/{c}
AssignRequest(d, c, embedFails) ==
    /\ embedFails => EmbedsOnAssign(assigned, d, c)
    /\ LET r == assign_document_to_class(World(assigned, EmptyVdb, disk), d, c, embedFails)
       IN  /\ assigned' = r.assigned
           /\ disk' = r.disk
           /\ last' = [op |-> "assign", document_id |-> d, class_id |-> c, ok |-> r.ok,
                       was_assigned |-> <<d, c>> \in assigned, vdb |-> r.vdb]
    /\ UNCHANGED <<docStatus, chunks, nextChunk>>
    /\ restUnchanged

\* DELETE /api/isolation/documents/{d}/remove/{c}
RemoveRequest(d, c) ==
    LET r == remove_document_from_class(World(assigned, EmptyVdb, disk), d, c)
    IN  /\ assigned' = r.assigned
        /\ disk' = r.disk
        /\ last' = [op |-> "remove", document_id |-> d, class_id |-> c, ok |-> r.ok,
                    vdb |-> r.vdb]
        /\ UNCHANGED <<docStatus, chunks, nextChunk>>
        /\ restUnchanged

\* POST /api/isolation/classes/{from}/migrate/{to}
MigrateRequest(from, to, failTo, failBack) ==
    /\ failBack \subseteq failTo
    /\ failTo \subseteq {d \in ClassDocuments(assigned, from) :
                            /\ (from = to \/ <<d, to>> \notin assigned)
                            /\ ChunkIdsOf(chunks, d) # <<>>}
    /\ LET r == migrate_class_documents(World(assigned, EmptyVdb, disk), from, to,
                                     failTo, failBack)
       IN  /\ assigned' = r.w.assigned
           /\ disk' = r.w.disk
           /\ last' = [op |-> "migrate", from |-> from, to |-> to,
                       total |-> ClassDocuments(assigned, from),
                       migrated |-> r.migrated, failed |-> r.failed,
                       to_failed |-> r.to_failed]
    /\ UNCHANGED <<docStatus, chunks, nextChunk>>
    /\ restUnchanged

Next ==
    \/ \E d \in DocIds, cls \in ClassIds \cup {"none"}, extractOk \in BOOLEAN,
          n \in 0..MaxChunksPerDoc, embedFails \in BOOLEAN :
          UploadDocument(d, cls, extractOk, n, embedFails)
    \/ \E d \in DocIds, extractOk \in BOOLEAN, n \in 0..MaxChunksPerDoc,
          embedFails \in BOOLEAN : ReindexDocument(d, extractOk, n, embedFails)
    \/ \E d \in DocIds, cs \in SUBSET ClassIds, action \in {"assign", "unassign"} :
          AssignDocumentToClasses(d, cs, action)
    \/ \E d \in DocIds, c \in ClassIds : RemoveRequest(d, c)

Spec == Init /\ [][Next]_vars

\* SpecMigrate: uploads and class migrations.
NextMigrate ==
    \/ \E d \in DocIds, cls \in ClassIds \cup {"none"}, extractOk \in BOOLEAN,
          n \in 0..MaxChunksPerDoc, embedFails \in BOOLEAN :
          UploadDocument(d, cls, extractOk, n, embedFails)
    \/ \E d \in DocIds, cs \in SUBSET ClassIds, action \in {"assign", "unassign"} :
          AssignDocumentToClasses(d, cs, action)
    \/ \E from \in ClassIds, to \in ClassIds, failTo \in SUBSET DocIds,
          failBack \in SUBSET DocIds : MigrateRequest(from, to, failTo, failBack)

SpecMigrate == Init /\ [][NextMigrate]_vars

\* SpecAssign: documents are uploaded unassigned and then assigned through the
\* isolation endpoint, every call succeeding or finding nothing to do.
NextAssign ==
    \/ \E d \in DocIds, extractOk \in BOOLEAN, n \in 0..MaxChunksPerDoc :
          UploadDocument(d, "none", extractOk, n, FALSE)
    \/ \E d \in DocIds, c \in ClassIds : AssignRequest(d, c, FALSE)

SpecAssign == Init /\ [][NextAssign]_vars

\* POST /api/isolation/classes/{c}/create-collection
CreateCollectionRequest(c) ==
    /\ LET r == create_class_collection(World(assigned, EmptyVdb, disk), c)
       IN  /\ assigned' = r.assigned
           /\ disk' = r.disk
           /\ last' = [op |-> "create_collection", class_id |-> c, ok |-> r.ok,
                       vdb |-> r.vdb]
    /\ UNCHANGED <<docStatus, chunks, nextChunk>>
    /\ restUnchanged

\* SpecIsolation: the isolation endpoints called for documents and classes
\* that exist and for ids that name none.
NextIsolation ==
    \/ \E d \in DocIds, cls \in ClassIds \cup {"none"}, n \in 0..MaxChunksPerDoc :
          UploadDocument(d, cls, TRUE, n, FALSE)
    \/ \E d \in DocIds \cup {UnknownDoc}, c \in ClassIds \cup {UnknownClass},
          embedFails \in BOOLEAN : AssignRequest(d, c, embedFails)
    \/ \E d \in DocIds \cup {UnknownDoc}, c \in ClassIds \cup {UnknownClass} :
          RemoveRequest(d, c)
    \/ \E c \in ClassIds \cup {UnknownClass} : CreateCollectionRequest(c)

SpecIsolation == Init /\ [][NextIsolation]_vars

----------------------------------------------------------------------------
\* Access control: ClassIsolationService's checks and POST /api/classes/set-access

\* Faulty variant of verify_student_access: the class's own flag is not read.
VerifyStudentAccessIgnoringClassFlag(ce, acc, s, c) ==
    /\ c \in ClassIds
    /\ \E r \in acc : r.student_id = s /\ r.class_id = c /\ r.enabled

verify_student_access(ce, acc, s, c) ==
    /\ c \in ClassIds
    /\ ce[c]
    /\ \E r \in acc : r.student_id = s /\ r.class_id = c /\ r.enabled

\* Faulty variant of verify_query_isolation: every document of the system is listed.
VerifyQueryIsolationAllDocuments(ce, acc, asg, v, s, c) ==
    IF ~verify_student_access(ce, acc, s, c)
    THEN [allowed |-> FALSE, accessible_documents |-> {}]
    ELSE [allowed |-> TRUE,
          accessible_documents |-> documents,
          vector_index_size |-> get_index_stats(v, c).total_vectors]

\* v is the service's own VectorDatabase.
verify_query_isolation(ce, acc, asg, v, s, c) ==
    IF ~verify_student_access(ce, acc, s, c)
    THEN [allowed |-> FALSE, accessible_documents |-> {}]
    ELSE [allowed |-> TRUE,
          accessible_documents |-> get_class_documents(asg, c),
          vector_index_size |-> get_index_stats(v, c).total_vectors]

\* The rows of one (student, class) pair; set-access keeps at most one.
AccessRows(acc, s, c) == {r \in acc : r.student_id = s /\ r.class_id = c}

\* set_class_access: the class flag takes the request's enabled field; a
\* student's row is found or created, whatever the student id is.
set_class_access(ce, acc, c, action, s, enabled) ==
    IF c \notin ClassIds THEN [classEnabled |-> ce, access |-> acc, status |-> 404]
    ELSE IF action \in {"enable_class", "disable_class"}
    THEN [classEnabled |-> [ce EXCEPT ![c] = enabled], access |-> acc, status |-> 200]
    ELSE IF s = "none" THEN [classEnabled |-> ce, access |-> acc, status |-> 400]
    ELSE [classEnabled |-> ce,
          access |-> (acc \ AccessRows(acc, s, c))
                        \cup {[student_id |-> s, class_id |-> c, enabled |-> enabled]},
          status |-> 200]

SetClassAccess(c, action, s, enabled) ==
    /\ action \in {"enable_class", "disable_class"} => s = "none"
    /\ LET r == set_class_access(classEnabled, access, c, action, s, enabled)
       IN  /\ classEnabled' = r.classEnabled
           /\ access' = r.access
           /\ last' = [op |-> "set_access", status |-> r.status]
    /\ UNCHANGED <<docStatus, chunks, nextChunk, assigned, disk, vdb, resp>>
    /\ concUnchanged

\* GET /api/isolation/students/{s}/verify-access/{c}, cli/test_isolation.py
VerifyStudentAccess(s, c) ==
    /\ last' = [op |-> "verify_access", student_id |-> s, class_id |-> c,
                has_access |-> verify_student_access(classEnabled, access, s, c)]
    /\ UNCHANGED <<docStatus, chunks, nextChunk, assigned, disk>>
    /\ restUnchanged

\* POST /api/isolation/queries/verify-isolation, cli/test_isolation.py
VerifyQueryIsolation(s, c) ==
    /\ last' = [op |-> "verify_isolation", student_id |-> s, class_id |-> c,
                result |-> verify_query_isolation(classEnabled, access, assigned,
                                                  EmptyVdb, s, c)]
    /\ UNCHANGED <<docStatus, chunks, nextChunk, assigned, disk>>
    /\ restUnchanged

\* SpecAccess: documents, assignments, access settings and the two checks.
NextAccess ==
    \/ \E d \in DocIds, cls \in ClassIds \cup {"none"} :
          UploadDocument(d, cls, FALSE, 0, FALSE)
    \/ \E d \in DocIds, cs \in SUBSET ClassIds, action \in {"assign", "unassign"} :
          AssignDocumentToClasses(d, cs, action)
    \/ \E c \in {VdbClass, UnknownClass},
          action \in {"enable_class", "disable_class", "enable_student", "disable_student"},
          s \in StudentIds \cup {UnknownStudent, "none"}, enabled \in BOOLEAN :
          SetClassAccess(c, action, s, enabled)
    \/ \E s \in StudentIds \cup {UnknownStudent}, c \in ClassIds \cup {UnknownClass} :
          VerifyStudentAccess(s, c)
    \/ \E s \in StudentIds \cup {UnknownStudent}, c \in ClassIds \cup {UnknownClass} :
          VerifyQueryIsolation(s, c)

SpecAccess == Init /\ [][NextAccess]_vars

----------------------------------------------------------------------------
\* Queries: RAGService.process_query and POST /api/query/

\* A query text that names chunk 1 and one that is far from every chunk.
QueryTexts == {1, MaxChunkId + 2}

\* fault: the step of this query that raises ("none": no step does).
Faults == {"none", "embed", "search", "lookup", "respond"}

ErrorResponse == [kind |-> "error", success |-> FALSE, error |-> TRUE, citations |-> <<>>]
NoResultsResponse ==
    [kind |-> "no_results", success |-> TRUE, error |-> FALSE, citations |-> <<>>]

\* Faulty variant of search_relevant_chunks: a score equal to the threshold is
\* dropped.
SearchRelevantChunksStrict(v, chs, c, qv, fault) ==
    IF fault = "search" THEN <<>>
    ELSE LET search_results == search(v, c, qv, max_chunks * 2)
             passing == SelectSeq(search_results,
                                  LAMBDA r : r.score > similarity_threshold)
             relevant_chunks == SelectSeq(passing,
                                  LAMBDA r : \E ch \in chs : ch.id = r.chunk_id)
         IN  IF search_results = <<>> THEN <<>>
             ELSE IF fault = "lookup" /\ passing # <<>> THEN <<>>
             ELSE SubSeq(relevant_chunks, 1, Min(max_chunks, Len(relevant_chunks)))

\* vector_db.search returns [] when it raises, and so does this function when
\* a chunk lookup raises.  The candidates come best first, which the sort keeps.
search_relevant_chunks(v, chs, c, qv, fault) ==
    IF fault = "search" THEN <<>>
    ELSE LET search_results == search(v, c, qv, max_chunks * 2)
             passing == SelectSeq(search_results,
                                  LAMBDA r : r.score >= similarity_threshold)
             relevant_chunks == SelectSeq(passing,
                                  LAMBDA r : \E ch \in chs : ch.id = r.chunk_id)
         IN  IF search_results = <<>> THEN <<>>
             ELSE IF fault = "lookup" /\ passing # <<>> THEN <<>>
             ELSE SubSeq(relevant_chunks, 1, Min(max_chunks, Len(relevant_chunks)))

\* One citation per relevant chunk whose document row exists.
generate_response(relevant_chunks, chs, fault) ==
    IF relevant_chunks = <<>> THEN NoResultsResponse
    ELSE IF fault = "respond" THEN ErrorResponse
    ELSE LET cited == SelectSeq(relevant_chunks,
                          LAMBDA r : ChunkDocument(chs, r.chunk_id) \in documents)
         IN  [kind |-> "answer", success |-> TRUE, error |-> FALSE,
              citations |-> [i \in DOMAIN cited |->
                                [document_id |-> ChunkDocument(chs, cited[i].chunk_id),
                                 chunk_id |-> cited[i].chunk_id,
                                 relevance_score |-> cited[i].score]]]

\* Faulty variant of process_query: a class without saved vectors is answered
\* with the error response.
ProcessQueryErrorWithoutIndex(v, chs, q, c, student_id, fault) ==
    IF c \notin ClassIds THEN ErrorResponse
    ELSE IF fault = "embed" THEN ErrorResponse
    ELSE IF search(v, c, Embed(q), max_chunks * 2) = <<>> THEN ErrorResponse
    ELSE LET relevant_chunks == search_relevant_chunks(v, chs, c, Embed(q), fault)
         IN  IF relevant_chunks = <<>> THEN NoResultsResponse
             ELSE generate_response(relevant_chunks, chs, fault)

\* process_query on a service whose VectorDatabase is v; student_id is a
\* parameter of the method that its body never reads.
process_query(v, chs, q, c, student_id, fault) ==
    IF c \notin ClassIds THEN ErrorResponse
    ELSE IF fault = "embed" THEN ErrorResponse
    ELSE LET relevant_chunks == search_relevant_chunks(v, chs, c, Embed(q), fault)
         IN  IF relevant_chunks = <<>> THEN NoResultsResponse
             ELSE generate_response(relevant_chunks, chs, fault)

\* The step named by fault is one this query gets to.
FaultReached(v, chs, q, c, fault) ==
    \/ fault = "none"
    \/ /\ c \in ClassIds
       /\ \/ fault = "embed"
          \/ fault = "search" /\ v.indexes[c] # NoIndex /\ Len(v.indexes[c]) > 0
          \/ /\ fault = "lookup"
             /\ \E i \in DOMAIN search(v, c, Embed(q), max_chunks * 2) :
                    search(v, c, Embed(q), max_chunks * 2)[i].score >= similarity_threshold
          \/ /\ fault = "respond"
             /\ search_relevant_chunks(v, chs, c, Embed(q), "none") # <<>>

\* Faulty variant of query_documents_access: the student's record is not read.
QueryDocumentsAccessClassOnly(ce, acc, s, c) ==
    IF c \notin ClassIds THEN "not_found"
    ELSE IF ~ce[c] THEN "denied"
    ELSE "ok"

\* The checks of query_documents before the quota: 404, 403 or go on.
query_documents_access(ce, acc, s, c) ==
    IF c \notin ClassIds THEN "not_found"
    ELSE IF ~ce[c] THEN "denied"
    ELSE IF AccessRows(acc, s, c) = {} THEN "denied"
    ELSE IF ~(CHOOSE r \in AccessRows(acc, s, c) : TRUE).enabled THEN "denied"
    ELSE "ok"

Refused(kind) == [kind |-> kind, success |-> FALSE, error |-> FALSE, citations |-> <<>>]

\* What a query leaves in resp: the answer and how it came about.
QueryOutcome(via, s, c, answer, embedded, fault) ==
    [via |-> via, student_id |-> s, class_id |-> c,
     had_access |-> verify_student_access(classEnabled, access, s, c),
     kind |-> answer.kind, success |-> answer.success, error |-> answer.error,
     citations |-> answer.citations, embedded |-> embedded, searched |-> embedded,
     fault |-> fault]

\* The daily limit check of query_documents on the student's access row u:
\* whether the query goes on, and the row afterwards.
daily_limit_check(u, clk) ==
    IF u.last_question_date # NoDate /\ UtcDate(u.last_question_date) = today(clk)
    THEN [pass |-> u.daily_question_count < daily_question_limit, usage |-> u]
    ELSE [pass |-> TRUE,
          usage |-> [daily_question_count |-> 0, last_question_date |-> utcnow(clk)]]

\* One more query handed to retrieval at the clock's time.
CountHanded(h, clk) ==
    [utc_date |-> UtcDate(utcnow(clk)),
     utc_n |-> IF h.utc_date = UtcDate(utcnow(clk)) THEN h.utc_n + 1 ELSE 1,
     local_date |-> today(clk),
     local_n |-> IF h.local_date = today(clk) THEN h.local_n + 1 ELSE 1]

\* Faulty variant of query_documents: the RAG service is called before the
\* daily limit and the validation are looked at.
QueryDocumentsRetrievalFirst(ce, acc, usg, clk, v, chs, s, c, q, valid, fault) ==
    LET pass == query_documents_access(ce, acc, s, c)
        limit == daily_limit_check(usg[<<s, c>>], clk)
    IN  IF pass # "ok"
        THEN [answer |-> Refused(pass), retrieval |-> FALSE, usage |-> usg]
        ELSE IF ~limit.pass
        THEN [answer |-> Refused("quota"), retrieval |-> TRUE, usage |-> usg]
        ELSE IF ~valid
        THEN [answer |-> Refused("invalid"), retrieval |-> TRUE,
              usage |-> [usg EXCEPT ![<<s, c>>] = limit.usage]]
        ELSE [answer |-> process_query(v, chs, q, c, s, fault), retrieval |-> TRUE,
              usage |-> [usg EXCEPT ![<<s, c>>] =
                  [daily_question_count |-> limit.usage.daily_question_count + 1,
                   last_question_date |-> utcnow(clk)]]]

\* query_documents for the authenticated student s on a service whose
\* VectorDatabase is v; valid says whether the query passes
\* validate_query_request.  The answer, whether RAGService.process_query was
\* called, and the access rows' counters afterwards.
query_documents(ce, acc, usg, clk, v, chs, s, c, q, valid, fault) ==
    LET pass == query_documents_access(ce, acc, s, c)
        limit == daily_limit_check(usg[<<s, c>>], clk)
    IN  IF pass # "ok"
        THEN [answer |-> Refused(pass), retrieval |-> FALSE, usage |-> usg]
        ELSE IF ~limit.pass
        THEN [answer |-> Refused("quota"), retrieval |-> FALSE, usage |-> usg]
        ELSE IF ~valid
        THEN [answer |-> Refused("invalid"), retrieval |-> FALSE,
              usage |-> [usg EXCEPT ![<<s, c>>] = limit.usage]]
        ELSE [answer |-> process_query(v, chs, q, c, s, fault), retrieval |-> TRUE,
              usage |-> [usg EXCEPT ![<<s, c>>] =
                  [daily_question_count |-> limit.usage.daily_question_count + 1,
                   last_question_date |-> utcnow(clk)]]]

\* POST /api/query/.  No step of the handler suspends, so the requests of one
\* server process run one after the other.
QueryDocuments(s, c, q, valid, fault) ==
    /\ LET v == load_existing_indexes(disk)
           r == query_documents(classEnabled, access, usage, clock, v, chunks,
                                s, c, q, valid, fault)
       IN  /\ IF r.answer.kind \in {"not_found", "denied", "quota"}
              THEN valid /\ fault = "none"
              ELSE IF r.answer.kind = "invalid"
              THEN fault = "none"
              ELSE /\ FaultReached(v, chunks, q, c, fault)
                   /\ handed[<<s, c>>].utc_n < MaxHanded
                   /\ handed[<<s, c>>].local_n < MaxHanded
           /\ resp' = QueryOutcome("api", s, c, r.answer,
                                   r.retrieval /\ fault # "embed", fault)
           /\ usage' = r.usage
           /\ handed' = IF r.retrieval /\ <<s, c>> \in DOMAIN handed
                        THEN [handed EXCEPT ![<<s, c>>] = CountHanded(@, clock)]
                        ELSE handed
    /\ UNCHANGED <<docStatus, chunks, nextChunk, assigned, classEnabled, access,
                   disk, vdb, last>>
    /\ UNCHANGED <<writer, reader, ver, clock>>

\* cli/test_rag.py: process_query called directly, for a student id that
\* names no user.
CliQuery(c, q, fault) ==
    /\ LET v == load_existing_indexes(disk)
       IN  /\ FaultReached(v, chunks, q, c, fault)
           /\ resp' = QueryOutcome("cli", UnknownStudent, c,
                                   process_query(v, chunks, q, c, UnknownStudent, fault),
                                   fault # "embed", fault)
    /\ UNCHANGED <<docStatus, chunks, nextChunk, assigned, classEnabled, access,
                   disk, vdb, last>>
    /\ concUnchanged

\* SpecQuery: indexed documents, access settings and queries.
NextQuery ==
    \/ UploadDocument("d1", "c1", TRUE, 1, FALSE)
    \/ UploadDocument("d2", "c2", TRUE, 1, FALSE)
    \/ \E c \in ClassIds,
          action \in {"enable_class", "disable_class", "enable_student", "disable_student"},
          s \in StudentIds \cup {"none"}, enabled \in BOOLEAN :
          SetClassAccess(c, action, s, enabled)
    \/ \E s \in StudentIds, c \in ClassIds \cup {UnknownClass}, q \in QueryTexts,
          valid \in BOOLEAN, fault \in Faults :
          QueryDocuments(s, c, q, valid, fault)
    \/ \E q \in QueryTexts, fault \in Faults : CliQuery(VdbClass, q, fault)

SpecQuery == Init /\ [][NextQuery]_vars

\* SpecQuota: the daily question limit.  The server runs in a time zone that
\* is UTC or ahead of it, and time passes between the requests.
InitQuota ==
    /\ docStatus = [d \in DocIds |-> "absent"]
    /\ chunks = {}
    /\ nextChunk = 1
    /\ assigned = {}
    /\ classEnabled = [c \in ClassIds |-> TRUE]
    /\ access = {}
    /\ disk = EmptyDisk
    /\ vdb = EmptyVdb
    /\ last = NoOp
    /\ resp = NoResp
    /\ writer = IdleWriters
    /\ reader = IdleReader
    /\ ver = NoVer
    /\ \E off \in UtcOffsets : clock = [now |-> 0, utc_offset |-> off]
    /\ usage = NoUsage
    /\ handed = NoneHanded

Tick ==
    /\ clock.now < MaxTime
    /\ clock' = [clock EXCEPT !.now = @ + 1]
    /\ UNCHANGED <<docStatus, chunks, nextChunk, assigned, classEnabled, access,
                   disk, vdb, last, resp, writer, reader, ver, usage, handed>>

NextQuota ==
    \/ \E c \in ClassIds, s \in StudentIds, enabled \in BOOLEAN :
          SetClassAccess(c, "enable_student", s, enabled)
    \/ \E s \in StudentIds, c \in ClassIds, valid \in BOOLEAN :
          QueryDocuments(s, c, 1, valid, "none")
    \/ Tick

SpecQuota == InitQuota /\ [][NextQuota]_vars

----------------------------------------------------------------------------
\* SpecConc: processes that share data/vector_db (the server's requests, the
\* cli tools).  No call takes a lock and no file is replaced by a rename, so
\* the steps of assign_document_to_class, save_index and load_index of
\* different processes come in any order.  Every process works on class
\* VdbClass.

\* assign_document_to_class up to the commit of the assignment
WriterStart(w, d) ==
    /\ writer[w].pc = "idle"
    /\ IF d \notin documents
       THEN /\ writer' = [writer EXCEPT ![w] = [pc |-> "done", doc |-> d, ok |-> FALSE]]
            /\ UNCHANGED assigned
       ELSE IF <<d, VdbClass>> \in assigned
       THEN /\ writer' = [writer EXCEPT ![w] = [pc |-> "done", doc |-> d, ok |-> TRUE]]
            /\ UNCHANGED assigned
       ELSE /\ assigned' = assigned \cup {<<d, VdbClass>>}
            /\ writer' = [writer EXCEPT ![w] =
                             IF ChunkIdsOf(chunks, d) = <<>>
                             THEN [pc |-> "done", doc |-> d, ok |-> TRUE]
                             ELSE [pc |-> "add", doc |-> d, vdb |-> EmptyVdb]]
    /\ UNCHANGED <<docStatus, chunks, nextChunk, classEnabled, access, disk, vdb,
                   last, resp, reader, ver>>
    /\ quotaUnchanged

\* generate_embeddings and add_embeddings into the service's own VectorDatabase
WriterAdd(w) ==
    /\ writer[w].pc = "add"
    /\ LET ids == ChunkIdsOf(chunks, writer[w].doc)
       IN  writer' = [writer EXCEPT ![w] =
                         [pc |-> "write_index", doc |-> writer[w].doc,
                          vdb |-> add_embeddings(writer[w].vdb, VdbClass,
                                      generate_embeddings(ChunkTexts(ids)), ids)]]
    /\ UNCHANGED <<docStatus, chunks, nextChunk, assigned, classEnabled, access, disk,
                   vdb, last, resp, reader, ver>>
    /\ quotaUnchanged

\* save_index: faiss.write_index
WriterWriteIndex(w) ==
    /\ writer[w].pc = "write_index"
    /\ disk' = [disk EXCEPT !.index[VdbClass] = writer[w].vdb.indexes[VdbClass]]
    /\ ver' = [ver EXCEPT !.index = w]
    /\ writer' = [writer EXCEPT ![w].pc = "write_mapping"]
    /\ UNCHANGED <<docStatus, chunks, nextChunk, assigned, classEnabled, access, vdb,
                   last, resp, reader>>
    /\ quotaUnchanged

\* save_index: pickle.dump of the mapping; the call returns True
WriterWriteMapping(w) ==
    /\ writer[w].pc = "write_mapping"
    /\ disk' = [disk EXCEPT !.mapping[VdbClass] = writer[w].vdb.chunk_mappings[VdbClass]]
    /\ ver' = [ver EXCEPT !.mapping = w]
    /\ writer' = [writer EXCEPT ![w] = [pc |-> "done", doc |-> writer[w].doc, ok |-> TRUE]]
    /\ UNCHANGED <<docStatus, chunks, nextChunk, assigned, classEnabled, access, vdb,
                   last, resp, reader>>
    /\ quotaUnchanged

\* load_index: both files must exist
ReaderCheck ==
    /\ reader.pc \in {"idle", "done"}
    /\ reader' = IF disk.index[VdbClass] = NoFile \/ disk.mapping[VdbClass] = NoFile
                 THEN [pc |-> "done", loaded |-> FALSE]
                 ELSE [pc |-> "read_index"]
    /\ UNCHANGED <<docStatus, chunks, nextChunk, assigned, classEnabled, access, disk,
                   vdb, last, resp, writer, ver>>
    /\ quotaUnchanged

\* load_index: faiss.read_index
ReaderReadIndex ==
    /\ reader.pc = "read_index"
    /\ reader' = [pc |-> "read_mapping", index |-> disk.index[VdbClass],
                  index_ver |-> ver.index]
    /\ UNCHANGED <<docStatus, chunks, nextChunk, assigned, classEnabled, access, disk,
                   vdb, last, resp, writer, ver>>
    /\ quotaUnchanged

\* load_index: pickle.load of the mapping; the call returns True
ReaderReadMapping ==
    /\ reader.pc = "read_mapping"
    /\ reader' = [pc |-> "done", loaded |-> TRUE,
                  index |-> reader.index, index_ver |-> reader.index_ver,
                  mapping |-> disk.mapping[VdbClass], mapping_ver |-> ver.mapping]
    /\ UNCHANGED <<docStatus, chunks, nextChunk, assigned, classEnabled, access, disk,
                   vdb, last, resp, writer, ver>>
    /\ quotaUnchanged

NextConc ==
    \/ \E d \in DocIds : UploadDocument(d, "none", TRUE, 1, FALSE)
    \/ \E w \in Writers, d \in DocIds : WriterStart(w, d)
    \/ \E w \in Writers : WriterAdd(w)
    \/ \E w \in Writers : WriterWriteIndex(w)
    \/ \E w \in Writers : WriterWriteMapping(w)
    \/ ReaderCheck
    \/ ReaderReadIndex
    \/ ReaderReadMapping

SpecConc == Init /\ [][NextConc]_vars

----------------------------------------------------------------------------
\* Cleanup, bulk assignment and audit of the isolation service

\* Faulty variant of cleanup_orphaned_data: the chunks of documents in status
\* error go too.
CleanupAlsoErrorDocuments(chs, asg, v) ==
    LET orphaned == {ch \in chs : \/ ch.document_id \notin documents
                                  \/ docStatus[ch.document_id] = "error"}
    IN  [chunks |-> chs \ orphaned, vdb |-> v,
         orphaned_chunks |-> Cardinality(orphaned),
         empty_indexes |-> 0, invalid_assignments |-> 0]

\* cleanup_orphaned_data on a service whose VectorDatabase is v: the chunk
\* rows left, the VectorDatabase with the collections created anew, and the
\* counters returned.
cleanup_orphaned_data(chs, asg, v) ==
    LET orphaned == {ch \in chs : ch.document_id \notin documents}
        rebuilt == {c \in ClassIds : /\ get_index_stats(v, c).total_vectors = 0
                                     /\ get_class_documents(asg, c) # {}}
    IN  [chunks |-> chs \ orphaned,
         vdb |-> [indexes |-> [c \in ClassIds |->
                                  IF c \in rebuilt THEN <<>> ELSE v.indexes[c]],
                  chunk_mappings |-> [c \in ClassIds |->
                                  IF c \in rebuilt THEN <<>> ELSE v.chunk_mappings[c]]],
         orphaned_chunks |-> Cardinality(orphaned),
         empty_indexes |-> Cardinality(rebuilt),
         invalid_assignments |-> 0]

\* POST /api/isolation/cleanup/orphaned-data
CleanupRequest ==
    /\ LET r == cleanup_orphaned_data(chunks, assigned, EmptyVdb)
       IN  /\ chunks' = r.chunks
           /\ last' = [op |-> "cleanup", chunks_before |-> chunks, vdb |-> r.vdb,
                       orphaned_chunks |-> r.orphaned_chunks,
                       empty_indexes |-> r.empty_indexes]
    /\ UNCHANGED <<docStatus, nextChunk, assigned, disk>>
    /\ restUnchanged

\* A chunk row written for a document id that names no document, as
\* test_cleanup_orphaned_data does; the table has no enforced foreign key.
InsertOrphanChunk ==
    /\ nextChunk <= MaxChunkId
    /\ chunks' = chunks \cup {[id |-> nextChunk, document_id |-> UnknownDoc]}
    /\ nextChunk' = nextChunk + 1
    /\ last' = [op |-> "insert_chunk"]
    /\ UNCHANGED <<docStatus, assigned, disk>>
    /\ restUnchanged

\* DELETE /api/docs/{d}: the row goes, and by cascade its chunks and its
\* assignments; the saved indexes are not touched.
DeleteDocument(d) ==
    /\ d \in documents
    /\ docStatus' = [docStatus EXCEPT ![d] = "absent"]
    /\ chunks' = {ch \in chunks : ch.document_id # d}
    /\ assigned' = {p \in assigned : p[1] # d}
    /\ last' = [op |-> "delete", document_id |-> d]
    /\ UNCHANGED <<nextChunk, disk>>
    /\ restUnchanged

\* SpecCleanup: uploads, assignments through the documents endpoint, deletions,
\* stray chunk rows and the cleanup.
NextCleanup ==
    \/ \E d \in DocIds, cls \in ClassIds \cup {"none"}, extractOk \in BOOLEAN,
          n \in 0..MaxChunksPerDoc, embedFails \in BOOLEAN :
          UploadDocument(d, cls, extractOk, n, embedFails)
    \/ \E d \in DocIds, cs \in SUBSET ClassIds, action \in {"assign", "unassign"} :
          AssignDocumentToClasses(d, cs, action)
    \/ \E d \in DocIds : DeleteDocument(d)
    \/ InsertOrphanChunk
    \/ CleanupRequest

SpecCleanup == Init /\ [][NextCleanup]_vars

----------------------------------------------------------------------------
\* SpecBulk: the bulk assignment of the isolation service.

DocIdLists ==
    LET D == DocIds \cup {UnknownDoc}
    IN  {<<>>} \cup {<<a>> : a \in D} \cup {<<a, b>> : a \in D, b \in D}

\* The loop of bulk_assign_documents; r = [w, successful, failed], failing the
\* documents whose embedding fails.
RECURSIVE BulkLoop(_, _, _, _)
BulkLoop(r, ids, c, failing) ==
    IF ids = <<>> THEN r
    ELSE LET d == Head(ids)
             a == assign_document_to_class(r.w, d, c, d \in failing)
             step == IF a.ok
                     THEN [r EXCEPT !.w = a, !.successful = Append(@, d)]
                     ELSE [r EXCEPT !.w = a, !.failed = Append(@, d)]
         IN  BulkLoop(step, Tail(ids), c, failing)

bulk_assign_documents(w, ids, c, failing) ==
    LET r == BulkLoop([w |-> w, successful |-> <<>>, failed |-> <<>>], ids, c, failing)
    IN  [w |-> r.w, successful |-> r.successful, failed |-> r.failed,
         total |-> Len(ids)]

\* POST /api/isolation/documents/bulk-assign
BulkAssignRequest(ids, c, failing) ==
    /\ failing \subseteq {d \in SeqToSet(ids) \cap documents :
                            /\ <<d, c>> \notin assigned
                            /\ ChunkIdsOf(chunks, d) # <<>>}
    /\ LET r == bulk_assign_documents(World(assigned, EmptyVdb, disk), ids, c, failing)
       IN  /\ assigned' = r.w.assigned
           /\ disk' = r.w.disk
           /\ last' = [op |-> "bulk_assign", class_id |-> c, ids |-> ids,
                       before |-> assigned, successful |-> r.successful,
                       failed |-> r.failed, total |-> r.total]
    /\ UNCHANGED <<docStatus, chunks, nextChunk>>
    /\ restUnchanged

NextBulk ==
    \/ \E d \in DocIds, cls \in ClassIds \cup {"none"}, extractOk \in BOOLEAN,
          n \in 0..MaxChunksPerDoc, embedFails \in BOOLEAN :
          UploadDocument(d, cls, extractOk, n, embedFails)
    \/ \E ids \in DocIdLists, c \in ClassIds, failing \in SUBSET DocIds :
          BulkAssignRequest(ids, c, failing)

SpecBulk == Init /\ [][NextBulk]_vars

----------------------------------------------------------------------------
\* SpecAudit: the isolation audit of a class.

\* Faulty variant of audit_class_isolation: the chunks of a document are not
\* counted before it is reported.
AuditIgnoringChunkCount(asg, chs, ce, acc, v, c) ==
    IF c \notin ClassIds THEN [error |-> TRUE]
    ELSE LET class_documents == ClassDocuments(asg, c)
             student_access == {r \in acc : r.class_id = c}
             enabled_students == {r \in student_access : r.enabled}
             doc_chunks(d) == Len(ChunkIdsOf(chs, d))
             cross_class_docs ==
                 SelectSeq(DocSeq(documents), LAMBDA d : d \notin class_documents)
         IN  [error |-> FALSE,
              class_id |-> c,
              class_enabled |-> ce[c],
              assigned_documents |-> Cardinality(class_documents),
              enabled_students |-> Cardinality(enabled_students),
              total_students |-> Cardinality(student_access),
              vector_index |-> get_index_stats(v, c),
              isolation_status |-> IF cross_class_docs = <<>> THEN "SECURE" ELSE "WARNING",
              potential_leaks |->
                  [i \in DOMAIN cross_class_docs |->
                      [document_id |-> cross_class_docs[i],
                       chunk_count |-> doc_chunks(cross_class_docs[i])]]]

audit_class_isolation(asg, chs, ce, acc, v, c) ==
    IF c \notin ClassIds THEN [error |-> TRUE]
    ELSE LET class_documents == ClassDocuments(asg, c)
             student_access == {r \in acc : r.class_id = c}
             enabled_students == {r \in student_access : r.enabled}
             doc_chunks(d) == Len(ChunkIdsOf(chs, d))
             cross_class_docs ==
                 SelectSeq(DocSeq(documents),
                           LAMBDA d : d \notin class_documents /\ doc_chunks(d) > 0)
         IN  [error |-> FALSE,
              class_id |-> c,
              class_enabled |-> ce[c],
              assigned_documents |-> Cardinality(class_documents),
              enabled_students |-> Cardinality(enabled_students),
              total_students |-> Cardinality(student_access),
              vector_index |-> get_index_stats(v, c),
              isolation_status |-> IF cross_class_docs = <<>> THEN "SECURE" ELSE "WARNING",
              potential_leaks |->
                  [i \in DOMAIN cross_class_docs |->
                      [document_id |-> cross_class_docs[i],
                       chunk_count |-> doc_chunks(cross_class_docs[i])]]]

\* GET /api/isolation/classes/{c}/audit
AuditRequest(c) ==
    /\ last' = [op |-> "audit", class_id |-> c,
                result |-> audit_class_isolation(assigned, chunks, classEnabled, access,
                                                 EmptyVdb, c)]
    /\ UNCHANGED <<docStatus, chunks, nextChunk, assigned, disk>>
    /\ restUnchanged

NextAudit ==
    \/ \E d \in DocIds, cls \in ClassIds \cup {"none"}, n \in 0..MaxChunksPerDoc :
          UploadDocument(d, cls, TRUE, n, FALSE)
    \/ \E d \in DocIds, cs \in SUBSET ClassIds, action \in {"assign", "unassign"} :
          AssignDocumentToClasses(d, cs, action)
    \/ \E d \in DocIds : DeleteDocument(d)
    \/ \E c \in ClassIds \cup {UnknownClass} : AuditRequest(c)

SpecAudit == Init /\ [][NextAudit]_vars

----------------------------------------------------------------------------
\* SpecRank: _search_relevant_chunks over indexes long enough for the cut to
\* 2 * max_chunks candidates and to max_chunks chunks.

MaxRankLen == 12

\* An index of n vectors whose texts follow the pattern (a, b), vector i
\* belonging to chunk i.
RECURSIVE RankIndex(_, _, _)
RankIndex(n, a, b) ==
    IF n = 0 THEN <<>>
    ELSE Append(RankIndex(n - 1, a, b), Embed(((a * n + b) % 4) + 1))

RankVdb(n, a, b) ==
    [indexes |-> [c \in ClassIds |-> IF c = VdbClass THEN RankIndex(n, a, b) ELSE NoIndex],
     chunk_mappings |-> [c \in ClassIds |-> IF c = VdbClass THEN SortedSeq(1..n)
                                             ELSE NoIndex]]

\* The chunk rows of d1: all n, or those left when every third was deleted.
RankChunks(n, gaps) ==
    {[id |-> i, document_id |-> "d1"] : i \in {j \in 1..n : ~gaps \/ j % 3 # 0}}

InitRank ==
    /\ \E n \in 0..MaxRankLen, a \in 0..3, b \in 0..3, gaps \in BOOLEAN :
          /\ vdb = RankVdb(n, a, b)
          /\ chunks = RankChunks(n, gaps)
          /\ nextChunk = n + 1
    /\ docStatus = [d \in DocIds |-> IF d = "d1" THEN "ready" ELSE "absent"]
    /\ assigned = {<<"d1", VdbClass>>}
    /\ classEnabled = [c \in ClassIds |-> TRUE]
    /\ access = {}
    /\ disk = EmptyDisk
    /\ last = NoOp
    /\ resp = NoResp
    /\ writer = IdleWriters
    /\ reader = IdleReader
    /\ ver = NoVer
    /\ clock = [now |-> 0, utc_offset |-> 0]
    /\ usage = NoUsage
    /\ handed = NoneHanded

\* RAGService._search_relevant_chunks(VdbClass, embedding of q)
SearchRelevantChunks(q) ==
    /\ last' = [op |-> "relevant", query |-> q,
                relevant_chunks |->
                    search_relevant_chunks(vdb, chunks, VdbClass, Embed(q), "none")]
    /\ UNCHANGED <<vdb, disk, resp>>
    /\ dbUnchanged

NextRank == \E q \in 1..4 : SearchRelevantChunks(q)

SpecRank == InitRank /\ [][NextRank]_vars

----------------------------------------------------------------------------
\* SpecNoResults: uploads, deletions and queries in which no step raises.

\* RAGService.process_query on a service built for the call.
ProcessQuery(c, q) ==
    /\ last' = [op |-> "process_query", class_id |-> c, query |-> q,
                response |-> process_query(load_existing_indexes(disk), chunks, q, c,
                                           UnknownStudent, "none")]
    /\ UNCHANGED <<docStatus, chunks, nextChunk, assigned, disk>>
    /\ restUnchanged

NextNoResults ==
    \/ \E d \in DocIds, cls \in ClassIds, n \in 0..MaxChunksPerDoc :
          UploadDocument(d, cls, TRUE, n, FALSE)
    \/ \E d \in DocIds : DeleteDocument(d)
    \/ \E c \in ClassIds \cup {UnknownClass}, q \in ChunkIds \cup QueryTexts :
          ProcessQuery(c, q)

SpecNoResults == Init /\ [][NextNoResults]_vars

----------------------------------------------------------------------------
\* SpecPreview: RAGService._generate_response on chunks with their content.
\* A content is a sequence of characters.

MaxPreviewChunks == 2
preview_length == 200
content_preview_max_length == 200
ContentLengths == {0, preview_length - 1, preview_length, preview_length + 1,
                   preview_length + 3}
Ellipsis == <<".", ".", ".">>

\* A content of len characters, letters and full stops.
Content(len, a) == [i \in 1..len |-> IF (i + a) % 2 = 0 THEN "." ELSE "a"]

\* chunk.content[:200] + "..." if len(chunk.content) > 200 else chunk.content
content_preview(content) ==
    IF Len(content) > preview_length
    THEN SubSeq(content, 1, preview_length) \o Ellipsis
    ELSE content

\* CitationResponse(...): the schema's validation raises for a preview longer
\* than max_length.
CitationResponseValid(citation) ==
    Len(citation.content_preview) <= content_preview_max_length

\* The loop over relevant_chunks: one citation per chunk whose document row
\* is found.
RECURSIVE PreviewCitations(_)
PreviewCitations(relevant_chunks) ==
    IF relevant_chunks = <<>> THEN <<>>
    ELSE LET chunk == relevant_chunks[Len(relevant_chunks)]
             before == PreviewCitations(SubSeq(relevant_chunks, 1, Len(relevant_chunks) - 1))
         IN  IF chunk.has_document
             THEN Append(before, [chunk_id |-> chunk.id,
                                  content_preview |-> content_preview(chunk.content)])
             ELSE before

\* _generate_response: an exception raised while a citation is built is
\* caught and answered with the error response.
generate_response_with_content(relevant_chunks) ==
    IF relevant_chunks = <<>> THEN NoResultsResponse
    ELSE LET citations == PreviewCitations(relevant_chunks)
         IN  IF \E i \in DOMAIN citations : ~CitationResponseValid(citations[i])
             THEN ErrorResponse
             ELSE [kind |-> "answer", success |-> TRUE, error |-> FALSE,
                   citations |-> citations]

PreviewChunk(id, len, a, has_document) ==
    [id |-> id, content |-> Content(len, a), has_document |-> has_document]

\* The lists of retained chunks a query is answered from.
RECURSIVE PreviewChunkLists(_)
PreviewChunkLists(n) ==
    IF n = 0 THEN {<<>>}
    ELSE {Append(l, PreviewChunk(n, len, a, h)) :
              l \in PreviewChunkLists(n - 1), len \in ContentLengths,
              a \in 0..1, h \in BOOLEAN}

GenerateResponse(relevant_chunks) ==
    /\ last' = [op |-> "generate_response", relevant_chunks |-> relevant_chunks,
                response |-> generate_response_with_content(relevant_chunks)]
    /\ UNCHANGED <<docStatus, chunks, nextChunk, assigned, disk>>
    /\ restUnchanged

NextPreview ==
    \E n \in 1..MaxPreviewChunks : \E relevant_chunks \in PreviewChunkLists(n) :
        GenerateResponse(relevant_chunks)

SpecPreview == Init /\ [][NextPreview]_vars

----------------------------------------------------------------------------
\* SpecChunker: DocumentProcessor._create_chunks on a cleaned text.  A text
\* is a sequence of words separated by single spaces; a word is its position
\* in the text, its number of letters, and whether a full stop ends it.

MaxWords == 4
WordLens == {2, 5, 11}
ChunkSizes == {3, 6}
ChunkOverlaps == {0, 4, 8}
min_sentence_length == 10
chars_per_token == 4

RECURSIVE WordLists(_)
WordLists(n) ==
    IF n = 0 THEN {<<>>}
    ELSE {Append(t, [id |-> n, len |-> l, stop |-> st]) :
              t \in WordLists(n - 1), l \in WordLens, st \in BOOLEAN}

Texts == UNION {WordLists(n) : n \in 0..MaxWords}

WordChars(w) == w.len + (IF w.stop THEN 1 ELSE 0)

\* len(" ".join(words))
RECURSIVE StrLen(_)
StrLen(words) ==
    IF words = <<>> THEN 0
    ELSE IF Len(words) = 1 THEN WordChars(words[1])
    ELSE StrLen(SubSeq(words, 1, Len(words) - 1)) + 1 + WordChars(words[Len(words)])

\* re.split(r'[.!?]+\s+', text): a full stop that a space follows ends a
\* sentence and is consumed with the space; the text's last word keeps its
\* full stop.  pending is the sentence being read.
RECURSIVE SplitAt(_, _, _)
SplitAt(text, i, pending) ==
    IF i > Len(text) THEN (IF pending = <<>> THEN <<>> ELSE <<pending>>)
    ELSE IF text[i].stop /\ i < Len(text)
    THEN <<Append(pending, [text[i] EXCEPT !.stop = FALSE])>> \o SplitAt(text, i + 1, <<>>)
    ELSE SplitAt(text, i + 1, Append(pending, text[i]))

\* Sentences of at most 10 characters are filtered out.
split_into_sentences(text) ==
    SelectSeq(SplitAt(text, 1, <<>>), LAMBDA sn : StrLen(sn) > min_sentence_length)

estimate_tokens(chars) == chars \div chars_per_token

\* A string of the chunker: lead says whether it starts with a space.
EmptyString == [lead |-> FALSE, words |-> <<>>]
Chars(str) == (IF str.lead THEN 1 ELSE 0) + StrLen(str.words)

\* words[-n:] in Python: the last n words, and all of them for n = 0.
PySliceFromEnd(words, n) ==
    IF n = 0 THEN words
    ELSE SubSeq(words, Len(words) - Min(n, Len(words)) + 1, Len(words))

get_overlap_text(str, overlap_tokens) ==
    LET overlap_words == overlap_tokens \div 4
    IN  IF Len(str.words) > overlap_words
        THEN [lead |-> FALSE, words |-> PySliceFromEnd(str.words, overlap_words)]
        ELSE str

\* _create_chunk on content.strip(); seed is the number of leading words the
\* chunk was started with from the chunk before it.
create_chunk(str, seed, chunk_index) ==
    [words |-> str.words, seed |-> seed, chunk_index |-> chunk_index,
     token_count |-> estimate_tokens(StrLen(str.words))]

\* The loop of _create_chunks from sentence i on.
RECURSIVE ChunkLoop(_, _, _, _, _)
ChunkLoop(sentences, i, st, chunk_size, chunk_overlap) ==
    IF i > Len(sentences) THEN st
    ELSE LET sentence == sentences[i]
             sentence_tokens == estimate_tokens(StrLen(sentence))
         IN  IF st.current_tokens + sentence_tokens > chunk_size
                /\ st.current_chunk # EmptyString
             THEN LET overlap_text == get_overlap_text(st.current_chunk, chunk_overlap)
                      started == [lead |-> overlap_text.lead,
                                  words |-> overlap_text.words \o sentence]
                  IN  ChunkLoop(sentences, i + 1,
                          [chunks |-> Append(st.chunks,
                                         create_chunk(st.current_chunk, st.seed,
                                                      st.chunk_index)),
                           current_chunk |-> started,
                           seed |-> Len(overlap_text.words),
                           current_tokens |-> estimate_tokens(Chars(started)),
                           chunk_index |-> st.chunk_index + 1],
                          chunk_size, chunk_overlap)
             ELSE ChunkLoop(sentences, i + 1,
                      [st EXCEPT !.current_chunk =
                                     [lead |-> TRUE, words |-> @.words \o sentence],
                                 !.current_tokens = @ + sentence_tokens],
                      chunk_size, chunk_overlap)

create_chunks(text, chunk_size, chunk_overlap) ==
    LET st == ChunkLoop(split_into_sentences(text), 1,
                        [chunks |-> <<>>, current_chunk |-> EmptyString, seed |-> 0,
                         current_tokens |-> 0, chunk_index |-> 0],
                        chunk_size, chunk_overlap)
    IN  IF st.current_chunk.words # <<>>
        THEN Append(st.chunks, create_chunk(st.current_chunk, st.seed, st.chunk_index))
        ELSE st.chunks

\* The processor and the text it is given.
InitChunker ==
    /\ \E text \in Texts, chunk_size \in ChunkSizes, chunk_overlap \in ChunkOverlaps :
          last = [op |-> "text", text |-> text, chunk_size |-> chunk_size,
                  chunk_overlap |-> chunk_overlap]
    /\ docStatus = [d \in DocIds |-> "absent"]
    /\ chunks = {}
    /\ nextChunk = 1
    /\ assigned = {}
    /\ classEnabled = [c \in ClassIds |-> TRUE]
    /\ access = {}
    /\ disk = EmptyDisk
    /\ vdb = EmptyVdb
    /\ resp = NoResp
    /\ writer = IdleWriters
    /\ reader = IdleReader
    /\ ver = NoVer
    /\ clock = [now |-> 0, utc_offset |-> 0]
    /\ usage = NoUsage
    /\ handed = NoneHanded

CreateChunks ==
    /\ last.op = "text"
    /\ last' = [op |-> "create_chunks", text |-> last.text,
                chunk_size |-> last.chunk_size, chunk_overlap |-> last.chunk_overlap,
                chunks |-> create_chunks(last.text, last.chunk_size, last.chunk_overlap)]
    /\ UNCHANGED <<docStatus, chunks, nextChunk, assigned, disk>>
    /\ restUnchanged

NextChunker == CreateChunks

SpecChunker == InitChunker /\ [][NextChunker]_vars

----------------------------------------------------------------------------
\* SpecSetAccess: set-access requests of two server processes on one
\* database, the class flags, and the access decision of POST /api/query/
\* next to verify_student_access.  student_access has no unique constraint
\* on (student_id, class_id), and a request's find and its commit are two
\* statements.  writer[w] is the request process w is serving.

NoRow == [student_id |-> "none", class_id |-> "none", enabled |-> FALSE]

\* set_class_access for a student, up to the find: .first() of the pair's rows
SetAccessFind(w, c, s, enabled) ==
    /\ writer[w].pc = "idle"
    /\ c \in ClassIds
    /\ writer' = [writer EXCEPT ![w] =
                     [pc |-> "set_access", class_id |-> c, student_id |-> s,
                      enabled |-> enabled, found |-> AccessRows(access, s, c) # {}]]
    /\ UNCHANGED <<docStatus, chunks, nextChunk, assigned, classEnabled, access,
                   disk, vdb, last, resp, reader, ver>>
    /\ quotaUnchanged

\* The rest of the request: the row found is updated, or a row is added, and
\* the session commits.  Which of several rows .first() gave is not
\* determined by the query.
SetAccessCommit(w) ==
    /\ writer[w].pc = "set_access"
    /\ LET c == writer[w].class_id
           st == writer[w].student_id
           row == [student_id |-> st, class_id |-> c, enabled |-> writer[w].enabled]
       IN  IF writer[w].found
           THEN \E r \in AccessRows(access, st, c) :
                    access' = (access \ {r}) \cup {row}
           ELSE access' = access \cup {row}
    /\ writer' = [writer EXCEPT ![w] = [pc |-> "idle"]]
    /\ last' = [op |-> "set_access", status |-> 200]
    /\ UNCHANGED <<docStatus, chunks, nextChunk, assigned, classEnabled,
                   disk, vdb, resp, reader, ver>>
    /\ quotaUnchanged

\* The checks of query_documents on the class and on the row .first() gives,
\* and verify_student_access on the same database.
AccessDecision(s, c) ==
    /\ \E first \in (IF AccessRows(access, s, c) = {} THEN {NoRow}
                      ELSE AccessRows(access, s, c)) :
          last' = [op |-> "access_decision", student_id |-> s, class_id |-> c,
                   rows |-> Cardinality(AccessRows(access, s, c)),
                   endpoint |-> /\ c \in ClassIds
                                /\ classEnabled[c]
                                /\ first # NoRow
                                /\ first.enabled,
                   verify |-> verify_student_access(classEnabled, access, s, c)]
    /\ UNCHANGED <<docStatus, chunks, nextChunk, assigned, disk>>
    /\ restUnchanged

NextSetAccess ==
    \/ \E w \in Writers, c \in ClassIds, s \in StudentIds, enabled \in BOOLEAN :
          SetAccessFind(w, c, s, enabled)
    \/ \E w \in Writers : SetAccessCommit(w)
    \/ \E c \in ClassIds, action \in {"enable_class", "disable_class"},
          enabled \in BOOLEAN : SetClassAccess(c, action, "none", enabled)
    \/ \E s \in StudentIds, c \in ClassIds \cup {UnknownClass} : AccessDecision(s, c)

SpecSetAccess == Init /\ [][NextSetAccess]_vars

----------------------------------------------------------------------------
\* Claims

\* What a query on class c is served: RAGService is constructed for the
\* request, loads the saved indexes and searches with k = 2 * max_chunks.
Served(c, q) == search(load_existing_indexes(disk), c, Embed(q), 2 * max_chunks)

ServedChunkIds(c) == UNION {{Served(c, q)[i].chunk_id : i \in DOMAIN Served(c, q)} : q \in ChunkIds}

\* The stored chunk behind a served id, if its row still exists (a query cites
\* only chunks it can look up).
ServedChunks(c) == {ch \in chunks : ch.id \in ServedChunkIds(c)}

\* C1: every chunk a query on class c can be served belongs to a document
\* that is assigned to c now; in particular none belongs to a document whose
\* removal from c has just returned success.
C1_NoLeak ==
    /\ \A c \in ClassIds : \A ch \in ServedChunks(c) :
           ch.document_id \in ClassDocuments(assigned, c)
    /\ (last.op = "remove" /\ last.ok) =>
           \A ch \in ServedChunks(last.class_id) : ch.document_id # last.document_id

\* C2: after successful assignments, each through a service object of its own,
\* the saved mapping of class c holds every chunk id of every document that is
\* assigned to c.
C2_Completeness ==
    \A c \in ClassIds : \A d \in ClassDocuments(assigned, c) :
        \A id \in SeqToSet(ChunkIdsOf(chunks, d)) :
            /\ disk.mapping[c] # NoFile
            /\ id \in SeqToSet(disk.mapping[c])

\* Vector i is the embedding of the chunk that mapping entry i names.
Aligned(index, mapping) ==
    /\ Len(mapping) = Len(index)
    /\ \A i \in DOMAIN index : index[i] = Embed(mapping[i])

\* C3: in a class's index the mapping is as long as the index, entry i is the
\* id of the chunk whose embedding is vector i, and a search result pairs a
\* chunk id with the similarity of that chunk's own vector.
C3_PositionalCorrespondence ==
    /\ \A c \in ClassIds :
           vdb.indexes[c] # NoIndex => Aligned(vdb.indexes[c], vdb.chunk_mappings[c])
    /\ \A c \in ClassIds :
           (disk.index[c] # NoFile /\ disk.mapping[c] # NoFile)
               => Aligned(disk.index[c], disk.mapping[c])
    /\ last.op = "search" =>
           \A i \in DOMAIN last.results :
               last.results[i].score =
                   Similarity(Embed(last.query), Embed(last.results[i].chunk_id))

\* C7: when a migration returns, every document whose assignment to the
\* destination failed after its removal from the source is assigned to the
\* source again and reported in failed, and no document of the source is left
\* in neither class.
C7_MigrationCompensation ==
    last.op = "migrate" =>
        /\ \A d \in last.to_failed :
               /\ <<d, last.from>> \in assigned
               /\ d \in last.failed
        /\ \A d \in last.total :
               <<d, last.from>> \in assigned \/ <<d, last.to>> \in assigned

\* A migration between two classes in which an assignment to the destination failed.
C7_Witness ==
    /\ last.op = "migrate"
    /\ last.from # last.to
    /\ last.to_failed # {}

\* Access held when the query was made, read from the tables.
HasEnabledAccess(s, c) ==
    /\ c \in ClassIds
    /\ classEnabled[c]
    /\ [student_id |-> s, class_id |-> c, enabled |-> TRUE] \in access

C5_VerifyStudentAccess ==
    last.op = "verify_access" =>
        /\ last.has_access <=> HasEnabledAccess(last.student_id, last.class_id)
        /\ last.class_id \notin ClassIds => ~last.has_access
        /\ AccessRows(access, last.student_id, last.class_id) = {} => ~last.has_access

\* C5, as stated: the same, and false for every student id that names no
\* student.
C5_FalseForNonexistentStudent ==
    last.op = "verify_access" =>
        /\ last.has_access <=> HasEnabledAccess(last.student_id, last.class_id)
        /\ last.class_id \notin ClassIds => ~last.has_access
        /\ last.student_id \notin StudentIds => ~last.has_access

\* A check is made for a student whose record is enabled in a disabled class.
C5_Witness ==
    /\ last.op = "verify_access"
    /\ last.class_id \in ClassIds
    /\ ~classEnabled[last.class_id]
    /\ [student_id |-> last.student_id, class_id |-> last.class_id, enabled |-> TRUE]
           \in access

\* C6: verify_query_isolation allows exactly when the student has access; the
\* document list is empty when it does not allow and is the set of documents
\* assigned to the class when it does.
C6_VerifyQueryIsolation ==
    last.op = "verify_isolation" =>
        /\ last.result.allowed <=> HasEnabledAccess(last.student_id, last.class_id)
        /\ ~last.result.allowed => last.result.accessible_documents = {}
        /\ last.result.allowed =>
               last.result.accessible_documents =
                   {d \in DocIds : <<d, last.class_id>> \in assigned}

\* An allowed check on a class with a document, while another document is
\* assigned only to another class.
C6_Witness ==
    /\ last.op = "verify_isolation"
    /\ last.result.allowed
    /\ last.result.accessible_documents # {}
    /\ \E d \in documents : \E c \in ClassIds :
           <<d, c>> \in assigned /\ <<d, last.class_id>> \notin assigned

\* C8: no two assigning processes are between their add and the end of their
\* save at once, and when all of them have returned success the saved mapping
\* of the class holds the chunks of each one's document.
C8_MutualExclusionNoLostUpdate ==
    /\ Cardinality({w \in Writers : writer[w].pc \in {"write_index", "write_mapping"}}) <= 1
    /\ (\A w \in Writers : writer[w].pc = "done" /\ writer[w].ok) =>
           \A w \in Writers :
               /\ disk.mapping[VdbClass] # NoFile
               /\ SeqToSet(ChunkIdsOf(chunks, writer[w].doc))
                      \subseteq SeqToSet(disk.mapping[VdbClass])

\* C9: a completed load holds an index file and a mapping file written by the
\* same save.
C9_NoTornRead ==
    (reader.pc = "done" /\ reader.loaded) => reader.index_ver = reader.mapping_ver

\* C10: a query in which a step failed ends in the error answer: success
\* false, an error string, no citations.
C10_FailuresEndInError ==
    (resp.kind # "none" /\ resp.fault # "none") =>
        /\ resp.kind = "error"
        /\ ~resp.success
        /\ resp.error
        /\ resp.citations = <<>>

\* C11: index_document, here reached through reindex_document, returns
\* success exactly when the document's status ends as ready, and after a
\* failure the status is error.
C11_IndexingOutcomeIsStatus ==
    last.op = "reindex" =>
        /\ last.ok <=> docStatus[last.document_id] = "ready"
        /\ ~last.ok => docStatus[last.document_id] = "error"

\* C12: after a successful reindex of d the stored chunks of d are the new
\* ones only, and the saved index of every class d is assigned to holds, of
\* d, the vectors and mapping entries of exactly those chunks: no vector or
\* chunk id without a stored chunk is left.
C12_ReindexWholesale ==
    (last.op = "reindex" /\ last.ok) =>
        \A c \in ClassIds : <<last.document_id, c>> \in assigned =>
            /\ disk.index[c] # NoFile
            /\ disk.mapping[c] # NoFile
            /\ SeqToSet(ChunkIdsOf(chunks, last.document_id)) \subseteq SeqToSet(disk.mapping[c])
            /\ \A i \in DOMAIN disk.mapping[c] : \E ch \in chunks : ch.id = disk.mapping[c][i]
            /\ \A i \in DOMAIN disk.index[c] : \E ch \in chunks : disk.index[c][i] = Embed(ch.id)

\* C13: when the cleanup returns, every class that has an assigned document
\* and no vector in its index, in the service as on disk, has an index (in the
\* service or on disk) that holds the chunks of its assigned documents, and
\* empty_indexes is the number of classes rebuilt.
C13_CleanupRebuildsEmptyIndexes ==
    last.op = "cleanup" =>
        /\ \A c \in ClassIds :
               (/\ ClassDocuments(assigned, c) # {}
                /\ disk.index[c] = NoFile \/ disk.index[c] = <<>>) =>
                   \A d \in ClassDocuments(assigned, c) :
                       \A id \in SeqToSet(ChunkIdsOf(chunks, d)) :
                           \/ id \in SeqToSet(last.vdb.chunk_mappings[c])
                           \/ /\ disk.mapping[c] # NoFile
                              /\ id \in SeqToSet(disk.mapping[c])
        /\ last.empty_indexes =
               Cardinality({c \in ClassIds : ClassDocuments(assigned, c) # {}})

\* C14: when the cleanup returns, no stored chunk names a document that does
\* not exist, every chunk of an existing document is still stored, and
\* orphaned_chunks is the number of chunk rows deleted.
C14_CleanupDeletesOrphansOnly ==
    last.op = "cleanup" =>
        /\ \A ch \in chunks : ch.document_id \in documents
        /\ chunks = {ch \in last.chunks_before : ch.document_id \in documents}
        /\ last.orphaned_chunks = Cardinality(last.chunks_before \ chunks)

\* A cleanup that deleted a stray chunk and kept a document's chunk.
C14_Witness ==
    /\ last.op = "cleanup"
    /\ last.orphaned_chunks > 0
    /\ chunks # {}

\* C15: bulk_assign_documents puts every input id in exactly one of successful
\* and failed, total is the number of ids, and afterwards the documents of the
\* class are those assigned before plus the successful ones, so a failed id is
\* not left assigned.
C15_BulkAssignPartition ==
    last.op = "bulk_assign" =>
        /\ \A i \in DOMAIN last.ids :
               (last.ids[i] \in SeqToSet(last.successful))
                   # (last.ids[i] \in SeqToSet(last.failed))
        /\ last.total = Len(last.ids)
        /\ ClassDocuments(assigned, last.class_id) =
               ClassDocuments(last.before, last.class_id) \cup SeqToSet(last.successful)

\* C16: for every student and class, the queries handed to retrieval on one
\* calendar day (of the server's local time, or of UTC) are never more than the
\* class's daily question limit.
C16_DailyQuota ==
    \A k \in StudentIds \X ClassIds :
        \/ handed[k].local_n <= daily_question_limit
        \/ handed[k].utc_n <= daily_question_limit

\* C17: a request to the query endpoint that is rejected by the class-enabled
\* gate, the student-access gate, the daily limit or the validation of the
\* query causes no query embedding and no index search.
C17_GatesBeforeRetrieval ==
    (resp.kind # "none" /\ resp.via = "api"
        /\ resp.kind \in {"not_found", "denied", "quota", "invalid"}) =>
        ~resp.embedded /\ ~resp.searched

C17_Witness ==
    /\ resp.kind = "quota"
    /\ resp.via = "api"
    /\ disk.index[resp.class_id] # NoFile

\* C18: assign_document_to_class for a document already assigned to the class
\* returns True and leaves the assignment relation, the class's saved index
\* and mapping and the service's own index as they were.
C18_AssignIdempotent ==
    [][(last'.op = "assign" /\ <<last'.document_id, last'.class_id>> \in assigned) =>
          /\ last'.ok
          /\ assigned' = assigned
          /\ disk' = disk
          /\ last'.vdb = EmptyVdb]_vars

C18_Witness ==
    /\ last.op = "assign"
    /\ last.was_assigned
    /\ last.ok
    /\ ChunkIdsOf(chunks, last.document_id) # <<>>

\* C19: create_class_collection for a class that does not exist, and
\* assign_document_to_class and remove_document_from_class for a document or a
\* class that does not exist, return False and change neither the assignment
\* relation nor any class's index, in the service or saved.
C19_NotFoundCleanFailure ==
    [][(/\ last'.op \in {"assign", "remove", "create_collection"}
        /\ \/ last'.class_id \notin ClassIds
           \/ last'.op # "create_collection" /\ last'.document_id \notin documents) =>
          /\ ~last'.ok
          /\ assigned' = assigned
          /\ disk' = disk
          /\ last'.vdb = EmptyVdb]_vars

C19_Witness ==
    /\ last.op \in {"assign", "remove"}
    /\ last.document_id \notin documents
    /\ last.class_id \in ClassIds
    /\ ~last.ok
    /\ assigned # {}
    /\ disk.index[last.class_id] # NoFile

\* C20: the audit of a class reports SECURE exactly when no document with a
\* stored chunk is unassigned to the class and WARNING otherwise,
\* potential_leaks lists exactly those documents, and assigned_documents is
\* the number of documents assigned to the class.
C20_AuditReportsLeaks ==
    (last.op = "audit" /\ last.class_id \in ClassIds) =>
        LET leaks == {d \in documents :
                         /\ \E ch \in chunks : ch.document_id = d
                         /\ <<d, last.class_id>> \notin assigned}
            listed == last.result.potential_leaks
        IN  /\ ~last.result.error
            /\ last.result.isolation_status = IF leaks = {} THEN "SECURE" ELSE "WARNING"
            /\ {listed[i].document_id : i \in DOMAIN listed} = leaks
            /\ Len(listed) = Cardinality(leaks)
            /\ last.result.assigned_documents =
                   Cardinality({d \in documents : <<d, last.class_id>> \in assigned})

C20_Witness ==
    /\ last.op = "audit"
    /\ last.class_id \in ClassIds
    /\ last.result.isolation_status = "WARNING"
    /\ last.result.assigned_documents > 0
    /\ Len(last.result.potential_leaks) > 0

RankCandidates ==
    LET top == search(vdb, VdbClass, Embed(last.query), 2 * max_chunks)
    IN  {i \in DOMAIN top : /\ top[i].score >= similarity_threshold
                            /\ \E ch \in chunks : ch.id = top[i].chunk_id}

SavedIds(dsk, c) == IF dsk.mapping[c] = NoFile THEN {} ELSE SeqToSet(dsk.mapping[c])

\* C24: a step that adds the assignment (d, c) puts the chunk ids of d into
\* the saved index of c, a step that removes it takes them out, no step
\* changes the saved index of c without changing an assignment to c, and only
\* the isolation service's assign and remove change either store.
C24_AssignmentAndIndexTogether ==
    [][/\ \A d \in DocIds, c \in ClassIds :
           /\ (<<d, c>> \in assigned' \ assigned) =>
                  SeqToSet(ChunkIdsOf(chunks', d)) \subseteq SavedIds(disk', c)
           /\ (<<d, c>> \in assigned \ assigned') =>
                  SeqToSet(ChunkIdsOf(chunks, d)) \cap SavedIds(disk', c) = {}
       /\ \A c \in ClassIds :
              (disk'.index[c] # disk.index[c] \/ disk'.mapping[c] # disk.mapping[c]) =>
                  \E d \in DocIds : (<<d, c>> \in assigned') # (<<d, c>> \in assigned)
       /\ (assigned' # assigned \/ disk' # disk) => last'.op \in {"assign", "remove"}
      ]_vars

\* The preview the claim describes for a content.
ExpectedPreview(content) ==
    IF Len(content) > preview_length
    THEN SubSeq(content, 1, preview_length) \o Ellipsis
    ELSE content

\* C25: the answer built from retained chunks is the success answer, with one
\* citation for every chunk whose document exists; the preview is the first
\* 200 characters and an ellipsis for a content longer than 200 characters
\* and the content itself otherwise.
C25_CitationPreview ==
    last.op = "generate_response" =>
        LET cited == SelectSeq(last.relevant_chunks, LAMBDA ch : ch.has_document)
        IN  /\ last.response.success
            /\ last.response.kind = "answer"
            /\ Len(last.response.citations) = Len(cited)
            /\ \A i \in DOMAIN cited :
                   /\ last.response.citations[i].chunk_id = cited[i].id
                   /\ last.response.citations[i].content_preview
                          = ExpectedPreview(cited[i].content)

\* C26: chunk i+1 begins with the trailing words of chunk i, and the words
\* carried over are at most chunk_overlap // 4, or all of chunk i when chunk i
\* has no more words than that, for every chunk_overlap.
C26_Overlap ==
    last.op = "create_chunks" =>
        \A i \in 1..(Len(last.chunks) - 1) :
            LET prev == last.chunks[i].words
                next == last.chunks[i + 1]
                budget == last.chunk_overlap \div 4
            IN  /\ next.seed <= Len(prev)
                /\ SubSeq(next.words, 1, next.seed)
                       = SubSeq(prev, Len(prev) - next.seed + 1, Len(prev))
                /\ \/ next.seed <= budget
                   \/ next.seed = Len(prev) /\ Len(prev) <= budget

\* C27: every chunk has a token count (length of its content // 4) of at most
\* chunk_size, except a chunk made of the overlap seed and one sentence or of
\* one sentence alone.
C27_TokenBudget ==
    last.op = "create_chunks" =>
        \A i \in DOMAIN last.chunks :
            LET ch == last.chunks[i]
                own == SubSeq(ch.words, ch.seed + 1, Len(ch.words))
            IN  \/ ch.token_count <= last.chunk_size
                \/ \E j \in DOMAIN split_into_sentences(last.text) :
                       split_into_sentences(last.text)[j] = own

\* The chunks' words without each chunk's leading overlap, in chunk order.
RECURSIVE WithoutOverlap(_)
WithoutOverlap(chs) ==
    IF chs = <<>> THEN <<>>
    ELSE LET ch == chs[Len(chs)]
         IN  WithoutOverlap(SubSeq(chs, 1, Len(chs) - 1))
                 \o SubSeq(ch.words, ch.seed + 1, Len(ch.words))

\* C28: the chunks without their leading overlaps, concatenated in
\* chunk_index order, hold every word of the cleaned text once and in text
\* order, so that no sentence is missing; an empty text gives no chunk.
C28_ChunkCoverage ==
    last.op = "create_chunks" =>
        LET rebuilt == WithoutOverlap(last.chunks)
        IN  /\ \A i \in DOMAIN last.chunks : last.chunks[i].chunk_index = i - 1
            /\ Len(rebuilt) = Len(last.text)
            /\ \A i \in DOMAIN rebuilt : rebuilt[i].id = last.text[i].id
            /\ last.text = <<>> => last.chunks = <<>>

\* C29: a search returns at most k results, best score first, and no result
\* when the class has no index or the index holds no vector; it leaves the
\* index and the mapping, in memory and saved, as they were.
C29_SearchContract ==
    [][last'.op = "search" =>
          LET results == last'.results
              c == last'.class_id
          IN  /\ Len(results) <= last'.k
              /\ \A i, j \in DOMAIN results :
                     i < j => results[i].score >= results[j].score
              /\ (vdb.indexes[c] = NoIndex) => results = <<>>
              /\ (vdb.indexes[c] # NoIndex /\ Len(vdb.indexes[c]) = 0) => results = <<>>
              /\ vdb' = vdb
              /\ disk' = disk
      ]_vars

\* A search that k cut short, on an index whose vectors score differently.
C29_Witness ==
    /\ last.op = "search"
    /\ vdb.indexes[last.class_id] # NoIndex
    /\ last.k < Len(vdb.indexes[last.class_id])
    /\ Len(last.results) = last.k
    /\ Len(last.results) > 1
    /\ last.results[1].score > last.results[Len(last.results)].score

\* C30: the access decision of the query endpoint (class enabled and the
\* student's access row enabled) equals verify_student_access on the same
\* database, also when the pair has more than one access row.
C30_EndpointDecisionIsVerify ==
    last.op = "access_decision" => last.endpoint = last.verify

====
